---- MODULE Spec2Model ----
(***************************************************************************)
(* Reminder scheduling and delayed dispatch of xpired.                      *)
(*                                                                         *)
(* The HTTP handlers of internal/api (create, update, delete, toggle), the *)
(* producer worker.ScheduleReminders and the send_reminder task handler of *)
(* worker.NewMux, over the tables of migrations/001 and a model of the     *)
(* asynq queue the code enqueues into (client.Enqueue with ProcessAt, a    *)
(* server with default options).                                           *)
(*                                                                         *)
(* Time is counted in whole days: an instant is a natural number, the      *)
(* instant of 00:00 UTC of that day, and AddDate(0, 0, -n) subtracts n.    *)
(***************************************************************************)
EXTENDS Integers, FiniteSets, Sequences, TLC

VARIABLES
    now,                \* time.Now()
    documents,          \* table documents: document id -> row
    document_reminders, \* table document_reminders: set of rows
    queue,              \* the asynq queue "default": set of tasks
    nextDoc,            \* number of document ids uuid.New() has handed out
    sends,              \* the calls of SendEmail / SendSMS made by the step just taken
                        \* and the channels whose call returned an error
    invocations,        \* the calls of ScheduleReminders made so far
    proc                \* func main, its two goroutines, the two servers and the
                        \* signal channels

vars == <<now, documents, document_reminders, queue, nextDoc, sends, invocations, proc>>

----------------------------------------------------------------------------
(* Bounds of the model *)

MaxTime == 1        \* the clock runs 0 .. MaxTime
MaxExp == 1         \* expiration dates a request may carry: 0 .. MaxExp
MaxRetry == 1       \* retries asynq grants a task (the library default is 25)
MaxRows == 2        \* binding rows per document the model lets accumulate
MaxCalls == 3       \* invocations of ScheduleReminders in SpecSchedule
MaxSignals == 2     \* SIGINT / SIGTERM the process is sent in SpecMain

----------------------------------------------------------------------------
(* Data *)

\* users: 1 has a phone number, 2 has phone_number NULL
Users == {1, 2}

\* uuid.UUID.String(): the text of an id
String(id) == <<"uuid", id>>

\* column users.phone_number (text, nullable): the value, or nothing when NULL
phone_number == [u \in Users |-> IF u = 1 THEN <<"+1555">> ELSE << >>]

\* what GetUserPhoneNumber yields for the user with id text userID (SELECT
\* phone_number FROM users WHERE id = $1): the phone number, or "" with an
\* error when phone_number is NULL (NULL does not scan into a string)
GetUserPhoneNumber(userID) ==
    LET u == CHOOSE u \in Users : String(u) = userID
    IN IF phone_number[u] = << >> THEN "" ELSE phone_number[u][1]

\* sent_at NULL (no instant)
NULL == -1

\* The seeded interval catalog, restricted to its two shortest lead times
\* (serial ids 9 and 10 of the ten seeded rows).
reminder_intervals ==
    { [ID |-> 9,  DaysBefore |-> 1, IdLabel |-> "1d"],
      [ID |-> 10, DaysBefore |-> 0, IdLabel |-> "0d"] }

IntervalIDs == {ri.ID : ri \in reminder_intervals}

\* table notification_logs: no statement of the program inserts into it
notification_logs == {}

\* codes a request may carry; "2d" is not in the catalog
Codes == {"1d", "0d", "2d"}

\* the document ids uuid.New() hands out, in this order: the model follows one
\* document from its creation on
DocIDs == {1}

ExpDates == 0..MaxExp

\* the zero time.Time (ExpirationDate absent from the request)
ZeroTime == -1

\* timezone names a request may carry: two IANA zones and a name that is no zone
Timezones == {"America/New_York", "Mars/Olympus"}

\* timezone absent from the request
NoTimezone == ""

\* a step that calls neither SendEmail nor SendSMS
NoSends == [email |-> 0, sms |-> 0, failed |-> {}]

----------------------------------------------------------------------------
(* Repository *)

\* a lookup that answers the whole catalog when a label is not in it
GetReminderIntervalsFromIdLabelsDefaulting(idLabels) ==
    IF \A l \in idLabels : \E ri \in reminder_intervals : ri.IdLabel = l
    THEN {ri \in reminder_intervals : ri.IdLabel \in idLabels}
    ELSE reminder_intervals

\* SELECT ... FROM reminder_intervals WHERE id_label = ANY($1)
GetReminderIntervalsFromIdLabels(idLabels) ==
    {ri \in reminder_intervals : ri.IdLabel \in idLabels}

\* rows of document_reminders for (documentID, reminderIntervalID)
RowsOf(rows, documentID, reminderIntervalID) ==
    {r \in rows : r.DocumentID = documentID /\ r.ReminderIntervalID = reminderIntervalID}

\* uuid.New() for a binding row: an id no row of the table carries
NewRowID(rows, documentID, reminderIntervalID) ==
    <<documentID, reminderIntervalID,
      Cardinality(RowsOf(rows, documentID, reminderIntervalID)) + 1>>

\* an insert that fills sent_at with an instant
SetDocumentRemindersStamped(rows, documentID, reminderIntervalID) ==
    rows \cup {[ID |-> NewRowID(rows, documentID, reminderIntervalID),
                DocumentID |-> documentID,
                ReminderIntervalID |-> reminderIntervalID,
                Enabled |-> TRUE, SentAt |-> 0]}

\* INSERT INTO document_reminders (id, document_id, reminder_interval_id, enabled):
\* a plain insert; the table has no unique constraint on (document, interval)
SetDocumentReminders(rows, documentID, reminderIntervalID) ==
    rows \cup {[ID |-> NewRowID(rows, documentID, reminderIntervalID),
                DocumentID |-> documentID,
                ReminderIntervalID |-> reminderIntervalID,
                Enabled |-> TRUE, SentAt |-> NULL]}

\* the handlers' loop calling SetDocumentReminders for every resolved interval
RECURSIVE SetAllDocumentReminders(_, _, _)
SetAllDocumentReminders(rows, documentID, intervals) ==
    IF intervals = {} THEN rows
    ELSE LET interval == CHOOSE i \in intervals : TRUE
         IN SetAllDocumentReminders(
                SetDocumentReminders(rows, documentID, interval.ID),
                documentID, intervals \ {interval})

\* an UPDATE that sets enabled and leaves sent_at as it is
ToggleDocumentReminderKeepSentAt(rows, documentID, reminderIntervalID, enabled) ==
    {IF r.DocumentID = documentID /\ r.ReminderIntervalID = reminderIntervalID
        THEN [r EXCEPT !.Enabled = enabled]
        ELSE r : r \in rows}

\* an update that leaves out the interval in its WHERE clause
ToggleDocumentReminderAllBindings(rows, documentID, reminderIntervalID, enabled) ==
    {IF r.DocumentID = documentID
        THEN [r EXCEPT !.Enabled = enabled, !.SentAt = NULL]
        ELSE r : r \in rows}

\* an upsert: the update, and an insert when no row matches
ToggleDocumentReminderUpsert(rows, documentID, reminderIntervalID, enabled) ==
    IF RowsOf(rows, documentID, reminderIntervalID) = {}
    THEN rows \cup {[ID |-> <<documentID, reminderIntervalID, 1>>,
                     DocumentID |-> documentID,
                     ReminderIntervalID |-> reminderIntervalID,
                     Enabled |-> enabled, SentAt |-> NULL]}
    ELSE {IF r.DocumentID = documentID /\ r.ReminderIntervalID = reminderIntervalID
             THEN [r EXCEPT !.Enabled = enabled, !.SentAt = NULL]
             ELSE r : r \in rows}

\* UPDATE document_reminders SET enabled = $1, sent_at = NULL
\*  WHERE document_id = $2 AND reminder_interval_id = $3
ToggleDocumentReminder(rows, documentID, reminderIntervalID, enabled) ==
    {IF r.DocumentID = documentID /\ r.ReminderIntervalID = reminderIntervalID
        THEN [r EXCEPT !.Enabled = enabled, !.SentAt = NULL]
        ELSE r : r \in rows}

\* DELETE FROM documents WHERE id = $1, with ON DELETE CASCADE on document_reminders
DeleteDocument(rows, documentID) ==
    {r \in rows : r.DocumentID # documentID}

----------------------------------------------------------------------------
(* Producer: worker/jobs.go *)

\* an encoder that writes every value of the map as a JSON string
MarshalAllStrings(payload) ==
    [user_id |-> <<"string", String(payload.user_id)>>,
     document_id |-> <<"string", String(payload.document_id)>>,
     interval_id |-> <<"string", payload.interval_id>>]

\* json.Marshal of the payload map: a JSON object with one member per key; the
\* values under user_id and document_id are Go strings (the ids' String()) and
\* become JSON strings, the value under interval_id is a Go int and becomes a JSON
\* number
Marshal(payload) ==
    [user_id |-> <<"string", String(payload.user_id)>>,
     document_id |-> <<"string", String(payload.document_id)>>,
     interval_id |-> <<"number", payload.interval_id>>]

\* the zero value of a Go string
EmptyString == <<"empty">>

\* json.Unmarshal into struct {UserID string `json:"user_id"`; DocumentID string
\* `json:"document_id"`; IntervalID int `json:"interval_id"`}: a member is stored
\* in the field with its key when its JSON type fits the field's Go type; a JSON
\* string for the int field, or a number for a string field, is an error and the
\* field keeps its zero value
Unmarshal(data) ==
    LET userOK == data.user_id[1] = "string"
        docOK == data.document_id[1] = "string"
        intervalOK == data.interval_id[1] = "number"
    IN [err |-> ~(userOK /\ docOK /\ intervalOK),
        UserID |-> IF userOK THEN data.user_id[2] ELSE EmptyString,
        DocumentID |-> IF docOK THEN data.document_id[2] ELSE EmptyString,
        IntervalID |-> IF intervalOK THEN data.interval_id[2] ELSE 0]

\* tasks of the queue carrying the payload (document, interval)
TasksOf(q, documentID, reminderIntervalID) ==
    {t \in q : t.doc = documentID /\ t.interval = reminderIntervalID}

\* asynq's task id (a fresh uuid): an id no task of the queue carries
NewTaskID(q, payload) ==
    LET same == TasksOf(q, payload.document_id, payload.interval_id)
    IN <<payload.document_id, payload.interval_id,
         CHOOSE k \in 1..(Cardinality(same) + 1) : \A t \in same : t.id[3] # k>>

\* enqueueDelayedTask enqueuing the task twice
enqueueDelayedTaskTwice(q, payload, runAt) ==
    LET first == [id |-> NewTaskID(q, payload), user |-> payload.user_id,
                  doc |-> payload.document_id, interval |-> payload.interval_id,
                  payload |-> Marshal(payload),
                  processAt |-> runAt, state |-> "pending", retried |-> 0]
    IN q \cup {first, [first EXCEPT !.id = NewTaskID(q \cup {first}, payload)]}

\* client.Enqueue(task, asynq.ProcessAt(runAt)): a new task, no TaskID or Unique option
enqueueDelayedTask(q, payload, runAt) ==
    q \cup {[id |-> NewTaskID(q, payload), user |-> payload.user_id,
             doc |-> payload.document_id, interval |-> payload.interval_id,
             payload |-> Marshal(payload),
             processAt |-> runAt, state |-> "pending", retried |-> 0]}

\* doc.ExpirationDate.AddDate(0, 0, -interval.DaysBefore)
ReminderTime(expirationDate, interval) == expirationDate - interval.DaysBefore

\* reminderTime.Before(time.Now())
Before(reminderTime, t) == reminderTime < t

\* a loop that returns at the first enqueue the queue rejects
RECURSIVE ScheduleRemindersStopAtError(_, _, _, _, _, _, _)
ScheduleRemindersStopAtError(q, docID, expirationDate, userID, enabledIntervals, t, accepted) ==
    IF enabledIntervals = {} THEN q
    ELSE LET interval == CHOOSE i \in enabledIntervals : TRUE
             reminderTime == ReminderTime(expirationDate, interval)
             payload == [user_id |-> userID, document_id |-> docID,
                         interval_id |-> interval.ID]
         IN IF Before(reminderTime, t)
            THEN ScheduleRemindersStopAtError(q, docID, expirationDate, userID,
                                              enabledIntervals \ {interval}, t,
                                              accepted)
            ELSE IF interval.ID \in accepted
            THEN ScheduleRemindersStopAtError(
                     enqueueDelayedTask(q, payload, reminderTime), docID,
                     expirationDate, userID, enabledIntervals \ {interval}, t,
                     accepted)
            ELSE q

\* ScheduleReminders: for every interval, skip it when its reminder time is before
\* now, else enqueue one task; accepted are the intervals whose Enqueue returns no
\* error (an error is logged and the loop goes on)
RECURSIVE ScheduleReminders(_, _, _, _, _, _, _)
ScheduleReminders(q, docID, expirationDate, userID, enabledIntervals, t, accepted) ==
    IF enabledIntervals = {} THEN q
    ELSE LET interval == CHOOSE i \in enabledIntervals : TRUE
             reminderTime == ReminderTime(expirationDate, interval)
             payload == [user_id |-> userID, document_id |-> docID,
                         interval_id |-> interval.ID]
             q1 == IF Before(reminderTime, t) THEN q
                   ELSE IF interval.ID \in accepted
                        THEN enqueueDelayedTask(q, payload, reminderTime)
                        ELSE q
         IN ScheduleReminders(q1, docID, expirationDate, userID,
                              enabledIntervals \ {interval}, t, accepted)

----------------------------------------------------------------------------
(* The process: func main, its goroutines, the servers and the signals *)

\* the signals main and asynq's Server.Run both ask to be notified of
Signals == {"SIGINT", "SIGTERM"}

\* package signal's send to a channel of capacity 1: it never blocks, a signal
\* that finds the channel full is dropped
Send(ch, sig) == IF Len(ch) < 1 THEN Append(ch, sig) ELSE ch

\* the process after the second go statement: both goroutines exist, none has
\* run, main has not reached signal.Notify
Started ==
    [main |-> "notify", http |-> "spawned", worker |-> "spawned",
     httpServer |-> "new", workerServer |-> "new",
     sigChan |-> << >>, sigs |-> << >>, signals |-> 0, exited |-> FALSE]

\* the process in service: main blocks on sigChan, ListenAndServe and Run are
\* both running, no signal was sent
Serving ==
    [main |-> "wait", http |-> "serving", worker |-> "waiting",
     httpServer |-> "listening", workerServer |-> "active",
     sigChan |-> << >>, sigs |-> << >>, signals |-> 0, exited |-> FALSE]

\* sync.WaitGroup wg: the goroutines whose deferred wg.Done() has not run
wg(p) == Cardinality({g \in {"http", "worker"} : p[g] # "done"})

----------------------------------------------------------------------------
(* State *)

TypeOK ==
    /\ now \in 0..MaxTime
    /\ nextDoc \in DocIDs \cup {Cardinality(DocIDs) + 1}
    /\ DOMAIN documents \subseteq DocIDs
    /\ \A d \in DOMAIN documents :
          /\ documents[d].UserID \in Users
          /\ documents[d].ExpirationDate \in ExpDates
          /\ documents[d].Timezone \in Timezones
    /\ \A r \in document_reminders :
          r.DocumentID \in DocIDs /\ r.ReminderIntervalID \in IntervalIDs
          /\ r.Enabled \in BOOLEAN /\ r.SentAt \in {NULL} \cup (0..MaxTime)
    /\ \A t \in queue :
          t.state \in {"pending", "active", "lease_expired", "archived"}
          /\ t.retried \in 0..MaxRetry
    /\ sends \in [email : 0..1, sms : 0..1, failed : SUBSET {"email", "sms"}]
    /\ invocations \in 0..MaxCalls
    /\ proc.main \in {"notify", "wait", "httpShutdown", "workerShutdown", "wgWait", "returned"}
    /\ proc.http \in {"spawned", "serving", "done"}
    /\ proc.worker \in {"spawned", "waiting", "shutdown", "done"}
    /\ proc.httpServer \in {"new", "listening", "closed"}
    /\ proc.workerServer \in {"new", "active", "closed"}
    /\ Len(proc.sigChan) <= 1 /\ Len(proc.sigs) <= 1
    /\ proc.signals \in 0..MaxSignals
    /\ proc.exited \in BOOLEAN

Init ==
    /\ proc = Serving
    /\ now = 0
    /\ documents = << >>
    /\ document_reminders = {}
    /\ queue = {}
    /\ nextDoc = 1
    /\ sends = NoSends
    /\ invocations = 0

\* the clock advances
Tick ==
    /\ now < MaxTime
    /\ now' = now + 1
    /\ sends' = NoSends
    /\ UNCHANGED <<documents, document_reminders, queue, nextDoc, invocations, proc>>

----------------------------------------------------------------------------
(* HTTP handlers: api/router.go *)

\* POST /documents by user u: answer 400 when the timezone is missing; else insert
\* the document, insert one enabled binding per resolved code, schedule the
\* reminders, answer 201
CreateDocumentHandler(u, exp, tz, codes, accepted) ==
    /\ nextDoc \in DocIDs
    /\ tz # NoTimezone
    /\ LET id == nextDoc
           reminderIntervals == GetReminderIntervalsFromIdLabels(codes)
       IN /\ documents' = [d \in DOMAIN documents \cup {id} |->
                              IF d = id
                              THEN [UserID |-> u, ExpirationDate |-> exp,
                                    Timezone |-> tz]
                              ELSE documents[d]]
          /\ document_reminders' =
                SetAllDocumentReminders(document_reminders, id, reminderIntervals)
          /\ queue' = ScheduleReminders(queue, id, exp, u, reminderIntervals, now, accepted)
          /\ nextDoc' = nextDoc + 1
          /\ invocations' = invocations + 1
    /\ sends' = NoSends
    /\ UNCHANGED <<now, proc>>

\* a handler that undoes the document row and the bindings when an insert fails
CreateDocumentHandlerRollsBack(u, exp, tz, codes, inserted) ==
    /\ nextDoc \in DocIDs
    /\ tz # NoTimezone
    /\ LET reminderIntervals == GetReminderIntervalsFromIdLabels(codes)
       IN /\ inserted \subseteq reminderIntervals
          /\ inserted # reminderIntervals
    /\ nextDoc' = nextDoc + 1
    /\ sends' = NoSends
    /\ UNCHANGED <<now, documents, document_reminders, queue, invocations, proc>>

\* CreateDocumentHandler when one of its calls of SetDocumentReminders returns an
\* error (the database fails): the document row and the bindings inserted before
\* (inserted, a part of the resolved intervals) stay, the handler answers 500 and
\* returns before it reaches ScheduleReminders
CreateDocumentHandlerInsertFails(u, exp, tz, codes, inserted) ==
    /\ nextDoc \in DocIDs
    /\ tz # NoTimezone
    /\ LET id == nextDoc
           reminderIntervals == GetReminderIntervalsFromIdLabels(codes)
       IN /\ inserted \subseteq reminderIntervals
          /\ inserted # reminderIntervals
          /\ documents' = [d \in DOMAIN documents \cup {id} |->
                              IF d = id
                              THEN [UserID |-> u, ExpirationDate |-> exp,
                                    Timezone |-> tz]
                              ELSE documents[d]]
          /\ document_reminders' =
                SetAllDocumentReminders(document_reminders, id, inserted)
          /\ nextDoc' = nextDoc + 1
    /\ sends' = NoSends
    /\ UNCHANGED <<now, queue, invocations, proc>>

\* PUT /documents/{id} by user u: overwrite the document's fields the request
\* carries, insert one enabled binding per resolved code, answer 200. Nothing is
\* scheduled or cancelled, and no binding is disabled.
UpdateDocumentHandler(u, d, exp, tz, codes) ==
    /\ d \in DOMAIN documents
    /\ IF documents[d].UserID # u
       THEN UNCHANGED <<documents, document_reminders>>
       ELSE LET reminderIntervals == GetReminderIntervalsFromIdLabels(codes)
                newExp == IF exp # ZeroTime THEN exp ELSE documents[d].ExpirationDate
                newTz == IF tz # NoTimezone THEN tz ELSE documents[d].Timezone
            IN /\ Cardinality({r \in document_reminders : r.DocumentID = d})
                     + Cardinality(reminderIntervals) <= MaxRows
               /\ documents' = [documents EXCEPT ![d].ExpirationDate = newExp,
                                                 ![d].Timezone = newTz]
               /\ document_reminders' =
                     SetAllDocumentReminders(document_reminders, d, reminderIntervals)
    /\ sends' = NoSends
    /\ UNCHANGED <<now, queue, nextDoc, invocations, proc>>

\* doc.UserID.String() != userID: the check after which GetDocumentHandler,
\* UpdateDocumentHandler, DeleteDocumentHandler and ToggleDocumentReminderHandler
\* answer ForbiddenError and return
Forbidden(u, d) == documents[d].UserID # u

\* GET /documents/{id} by user u: reads the document and its bindings (403 to a
\* user who does not own it); nothing is written
GetDocumentHandler(u, d) ==
    /\ d \in DOMAIN documents
    /\ sends' = NoSends
    /\ UNCHANGED <<now, documents, document_reminders, queue, nextDoc, invocations, proc>>

\* a delete handler without the owner check
DeleteDocumentHandlerAnyUser(u, d) ==
    /\ d \in DOMAIN documents
    /\ documents' = [x \in DOMAIN documents \ {d} |-> documents[x]]
    /\ document_reminders' = DeleteDocument(document_reminders, d)
    /\ sends' = NoSends
    /\ UNCHANGED <<now, queue, nextDoc, invocations, proc>>

\* DELETE /documents/{id} by user u: delete the row (bindings cascade), answer 204.
\* The queue is not touched.
DeleteDocumentHandler(u, d) ==
    /\ d \in DOMAIN documents
    /\ IF documents[d].UserID # u
       THEN UNCHANGED <<documents, document_reminders>>
       ELSE /\ documents' = [x \in DOMAIN documents \ {d} |-> documents[x]]
            /\ document_reminders' = DeleteDocument(document_reminders, d)
    /\ sends' = NoSends
    /\ UNCHANGED <<now, queue, nextDoc, invocations, proc>>

\* PATCH /documents/{id}/reminders by user u with {interval_id: code, enabled}:
\* 404 when the code is not in the catalog, 500 when no row matches, else 200.
\* The queue is not touched.
\* the status the handler answers with: 403 to a user who does not own the
\* document, 404 for a code that is not in the catalog, 500 when the repository
\* returns an error (the update affected no row), 200 otherwise
ToggleDocumentReminderStatus(u, d, code) ==
    LET reminderIntervals == GetReminderIntervalsFromIdLabels({code})
    IN IF documents[d].UserID # u THEN 403
       ELSE IF reminderIntervals = {} THEN 404
       ELSE IF \A ri \in reminderIntervals :
                  RowsOf(document_reminders, d, ri.ID) = {} THEN 500
       ELSE 200

ToggleDocumentReminderHandler(u, d, code, enabled) ==
    /\ d \in DOMAIN documents
    /\ LET reminderIntervals == GetReminderIntervalsFromIdLabels({code})
       IN IF documents[d].UserID # u
          THEN UNCHANGED document_reminders
          ELSE IF reminderIntervals = {}
          THEN UNCHANGED document_reminders
          ELSE LET reminderInterval == CHOOSE ri \in reminderIntervals : TRUE
               IN document_reminders' =
                     ToggleDocumentReminder(document_reminders, d,
                                            reminderInterval.ID, enabled)
    /\ sends' = NoSends
    /\ UNCHANGED <<now, documents, queue, nextDoc, invocations, proc>>

----------------------------------------------------------------------------
(* The queue and the worker: worker/server.go *)

\* a queue that hands a task out whatever its ProcessAt
DueAtOnce(t, time) == TRUE

\* a queue that hands a task to a worker at its instant and drops it from delivery
\* once the instant has passed
DueOnTime(t, time) == t.processAt = time

\* asynq.ProcessAt(runAt): the task is handed to a worker only once runAt has come
Due(t, time) == t.processAt <= time

\* a queue that puts a failed task back without counting the attempt
FailedUnbounded(t) == [t EXCEPT !.state = "pending"]

\* a queue that archives a task at its first failed attempt
FailedNoRetry(t) == [t EXCEPT !.state = "archived"]

\* the value of task t after a failed attempt: asynq retries it until its retry
\* budget is used up, then archives it
Failed(t) ==
    IF t.retried < MaxRetry
    THEN [t EXCEPT !.state = "pending", !.retried = t.retried + 1]
    ELSE [t EXCEPT !.state = "archived"]

\* a queue that hands a due task to a worker and leaves it pending for the next one
DeliverWithoutLease(t) ==
    /\ t \in queue
    /\ t.state = "pending"
    /\ Due(t, now)
    /\ queue' = queue \cup {[t EXCEPT !.state = "active"]}
    /\ sends' = NoSends
    /\ UNCHANGED <<now, documents, document_reminders, nextDoc, invocations, proc>>

\* a worker of the server takes a due pending task: the task is active (leased)
Deliver(t) ==
    /\ t \in queue
    /\ t.state = "pending"
    /\ Due(t, now)
    /\ queue' = (queue \ {t}) \cup {[t EXCEPT !.state = "active"]}
    /\ sends' = NoSends
    /\ UNCHANGED <<now, documents, document_reminders, nextDoc, invocations, proc>>

\* a handler that goes on to send when the document is not found
FoundWithoutDocument(t) == ~Unmarshal(t.payload).err

\* the handler gets past its early returns on task t: the payload decodes, the
\* user is found (no statement deletes a user) and GetDocumentByID (WHERE id = $1)
\* finds the document
Found(t) ==
    LET payload == Unmarshal(t.payload)
    IN /\ ~payload.err
       /\ \E d \in DOMAIN documents : String(d) = payload.DocumentID

\* a piece of fixed text of a message
Text(s) == <<"text", s>>

\* date.Format(layout): the text of a date depends on the layout, so the same date
\* under two layouts gives two texts ("March 10, 2025", "Mon, 10 Mar, 2025")
Format(date, layout) == <<"date", layout, date>>

\* documents.name of document d
DocumentName(d) == <<"name", d>>

\* users.email of the user with id text userID
GetUserEmail(userID) == <<"email", userID>>

\* the HTML body: the pieces it is concatenated from, in order
EmailTemplate(userName, documentName, expirationDate) ==
    <<Text("Reminder: Your Document is Expiring Soon"), Text("Hi "), userName,
      Text("This is a friendly reminder that your document "), documentName,
      Text(" is set to expire on "), expirationDate>>

\* the arguments of the handler's call SendEmail(userEmail, subject, email) in a run
\* on task t whose document exists
SendEmailCall(t) ==
    LET userEmail == GetUserEmail(Unmarshal(t.payload).UserID)
        email == EmailTemplate(userEmail, DocumentName(t.doc),
                               Format(documents[t.doc].ExpirationDate,
                                      "January 2, 2006"))
    IN [to |-> userEmail,
        subject |-> <<Text("Document Expiration Reminder")>>,
        body |-> email]

\* the handler's call of SendEmail: one per run
Emails(t) == 1

\* a handler that calls SendSMS whatever GetUserPhoneNumber yields
SMSsAlways(t) == 1

\* the handler's calls of SendSMS: one when GetUserPhoneNumber yields a non-empty
\* string (its error is dropped)
SMSs(t) == IF GetUserPhoneNumber(Unmarshal(t.payload).UserID) # "" THEN 1 ELSE 0

\* the channels whose transport call returned an error, given what SendEmail and
\* SendSMS answer when called
FailedChannels(t, emailErr, smsErr) ==
    {c \in {"email"} : emailErr} \cup {c \in {"sms"} : smsErr /\ SMSs(t) = 1}

\* a handler that returns the error of SendEmail: the attempt failed and SendSMS
\* is not called
SendReminderHandlerFailFast(t, emailErr, smsErr) ==
    /\ t \in queue
    /\ t.state = "active"
    /\ IF ~Found(t)
       THEN /\ queue' = (queue \ {t}) \cup {Failed(t)}
            /\ sends' = NoSends
       ELSE IF emailErr
       THEN /\ queue' = (queue \ {t}) \cup {Failed(t)}
            /\ sends' = [email |-> Emails(t), sms |-> 0, failed |-> {"email"}]
       ELSE /\ queue' = queue \ {t}
            /\ sends' = [email |-> Emails(t), sms |-> SMSs(t),
                         failed |-> FailedChannels(t, emailErr, smsErr)]
    /\ UNCHANGED <<now, documents, document_reminders, nextDoc, invocations, proc>>

\* the send_reminder handler runs on an active task and returns: it decodes the
\* payload (an error is returned), looks up the
\* user's email and the document (an error is returned, so the attempt failed),
\* sends the email (an error is logged), sends the SMS when the user has a phone
\* number (an error is dropped), returns nil (the task is done and leaves the
\* queue). The binding is not read or written.
SendReminderHandler(t, emailErr, smsErr) ==
    /\ t \in queue
    /\ t.state = "active"
    /\ IF ~Found(t)
       THEN /\ queue' = (queue \ {t}) \cup {Failed(t)}
            /\ sends' = NoSends
       ELSE /\ queue' = queue \ {t}
            /\ sends' = [email |-> Emails(t), sms |-> SMSs(t),
                         failed |-> FailedChannels(t, emailErr, smsErr)]
    /\ UNCHANGED <<now, documents, document_reminders, nextDoc, invocations, proc>>

\* the worker process dies while the task is active, before the handler made its
\* transport calls or after: the task is not acknowledged and its lease runs out
Crash(t, afterSend) ==
    /\ t \in queue
    /\ t.state = "active"
    /\ queue' = (queue \ {t}) \cup {[t EXCEPT !.state = "lease_expired"]}
    /\ sends' = IF afterSend /\ Found(t)
                THEN [email |-> Emails(t), sms |-> SMSs(t), failed |-> {}]
                ELSE NoSends
    /\ UNCHANGED <<now, documents, document_reminders, nextDoc, invocations, proc>>

\* asynq's recoverer finds the task whose lease ran out and fails the attempt
Recover(t) ==
    /\ t \in queue
    /\ t.state = "lease_expired"
    /\ queue' = (queue \ {t}) \cup {Failed(t)}
    /\ sends' = NoSends
    /\ UNCHANGED <<now, documents, document_reminders, nextDoc, invocations, proc>>

----------------------------------------------------------------------------

Next ==
    \/ Tick
    \/ \E u \in Users, exp \in ExpDates, tz \in Timezones \cup {NoTimezone},
          codes \in SUBSET Codes, accepted \in SUBSET IntervalIDs :
          CreateDocumentHandler(u, exp, tz, codes, accepted)
    \/ \E u \in Users, exp \in ExpDates, tz \in Timezones \cup {NoTimezone},
          codes \in SUBSET Codes, inserted \in SUBSET reminder_intervals :
          CreateDocumentHandlerInsertFails(u, exp, tz, codes, inserted)
    \/ \E u \in Users, d \in DocIDs, exp \in ExpDates \cup {ZeroTime},
          tz \in Timezones \cup {NoTimezone}, codes \in SUBSET Codes :
          \* the request of a user who does not own d is answered 403 whatever it
          \* carries: the empty request stands for all of them
          /\ (d \in DOMAIN documents /\ Forbidden(u, d)) =>
                (exp = ZeroTime /\ tz = NoTimezone /\ codes = {})
          /\ UpdateDocumentHandler(u, d, exp, tz, codes)
    \/ \E u \in Users, d \in DocIDs : DeleteDocumentHandler(u, d)
    \/ \E u \in Users, d \in DocIDs, code \in Codes, enabled \in BOOLEAN :
          ToggleDocumentReminderHandler(u, d, code, enabled)
    \/ \E t \in queue : Deliver(t)
    \/ \E t \in queue, emailErr \in BOOLEAN, smsErr \in BOOLEAN :
          SendReminderHandler(t, emailErr, smsErr)
    \/ \E t \in queue, afterSend \in BOOLEAN : Crash(t, afterSend)
    \/ \E t \in queue : Recover(t)

Spec == Init /\ [][Next]_vars

\* The worker keeps running: a due pending task is eventually taken by one of the
\* server's workers, and the recoverer eventually finds a task whose lease ran out.
Fairness ==
    \A d \in DocIDs, i \in IntervalIDs :
        /\ WF_vars(\E t \in TasksOf(queue, d, i) : Deliver(t))
        /\ WF_vars(\E t \in TasksOf(queue, d, i) : Recover(t))

SpecFair == Spec /\ Fairness

----------------------------------------------------------------------------
(* ScheduleReminders applied any number of times to one unchanged document *)

InitSchedule ==
    /\ proc = Serving
    /\ now \in 0..MaxTime
    /\ \E u \in Users, exp \in ExpDates, tz \in Timezones, codes \in SUBSET Codes :
          /\ documents = [d \in DocIDs |-> [UserID |-> u, ExpirationDate |-> exp,
                                             Timezone |-> tz]]
          /\ document_reminders =
                SetAllDocumentReminders({}, 1, GetReminderIntervalsFromIdLabels(codes))
    /\ queue = {}
    /\ nextDoc = Cardinality(DocIDs) + 1
    /\ sends = NoSends
    /\ invocations = 0

\* the enabled intervals of document d
EnabledIntervals(d) ==
    {ri \in reminder_intervals :
        \E r \in RowsOf(document_reminders, d, ri.ID) : r.Enabled}

Invoke(d, accepted) ==
    /\ invocations < MaxCalls
    /\ queue' = ScheduleReminders(queue, d, documents[d].ExpirationDate,
                                  documents[d].UserID, EnabledIntervals(d), now,
                                  accepted)
    /\ invocations' = invocations + 1
    /\ UNCHANGED <<now, documents, document_reminders, nextDoc, sends, proc>>

NextSchedule ==
    \E d \in DocIDs, accepted \in SUBSET IntervalIDs : Invoke(d, accepted)

SpecSchedule == InitSchedule /\ [][NextSchedule]_vars

----------------------------------------------------------------------------
(* Create and update requests that all carry a code the catalog does not have *)

\* the codes a request may carry that are no id_label of the catalog
UnknownCodes == Codes \ {ri.IdLabel : ri \in reminder_intervals}

NextUnknownCodes ==
    \/ Tick
    \/ \E u \in Users, exp \in ExpDates, tz \in Timezones,
          codes \in SUBSET Codes, accepted \in SUBSET IntervalIDs :
          /\ codes \cap UnknownCodes # {}
          /\ CreateDocumentHandler(u, exp, tz, codes, accepted)
    \/ \E u \in Users, d \in DocIDs, exp \in ExpDates \cup {ZeroTime},
          tz \in Timezones \cup {NoTimezone}, codes \in SUBSET Codes :
          /\ codes \cap UnknownCodes # {}
          /\ UpdateDocumentHandler(u, d, exp, tz, codes)

SpecUnknownCodes == Init /\ [][NextUnknownCodes]_vars

----------------------------------------------------------------------------
(* Update and toggle requests on a document whose bindings carry a sent_at *)

\* a document with one binding per catalog interval, each enabled or not and each
\* with a sent_at that is not NULL
InitBindings ==
    /\ proc = Serving
    /\ now \in 0..MaxTime
    /\ \E u \in Users, exp \in ExpDates, tz \in Timezones,
          enabled \in [IntervalIDs -> BOOLEAN], sentAt \in [IntervalIDs -> 0..now] :
          /\ documents = [d \in DocIDs |-> [UserID |-> u, ExpirationDate |-> exp,
                                             Timezone |-> tz]]
          /\ document_reminders =
                {[ID |-> <<d, i, 1>>, DocumentID |-> d, ReminderIntervalID |-> i,
                  Enabled |-> enabled[i], SentAt |-> sentAt[i]] :
                    d \in DocIDs, i \in IntervalIDs}
    /\ queue = {}
    /\ nextDoc = Cardinality(DocIDs) + 1
    /\ sends = NoSends
    /\ invocations = 0

NextBindings ==
    \/ \E u \in Users, d \in DocIDs, exp \in ExpDates \cup {ZeroTime},
          tz \in Timezones \cup {NoTimezone}, codes \in SUBSET Codes :
          UpdateDocumentHandler(u, d, exp, tz, codes)
    \/ \E u \in Users, d \in DocIDs, code \in Codes, enabled \in BOOLEAN :
          ToggleDocumentReminderHandler(u, d, code, enabled)

SpecBindings == InitBindings /\ [][NextBindings]_vars

----------------------------------------------------------------------------
(* Delivery and redelivery of the tasks of a document whose bindings may carry a
   sent_at value. The program writes sent_at only as NULL; the rows below are what
   the table holds once a stamp was written into it. The queue is what
   ScheduleReminders enqueued when the document was created at time 0. *)

InitRedelivery ==
    /\ proc = Serving
    /\ now \in 0..MaxTime
    /\ \E u \in Users, exp \in ExpDates, tz \in Timezones,
          sentAt \in [IntervalIDs -> {NULL} \cup (0..now)] :
          /\ documents = [d \in DocIDs |-> [UserID |-> u, ExpirationDate |-> exp,
                                             Timezone |-> tz]]
          /\ document_reminders =
                {[ID |-> <<d, i, 1>>, DocumentID |-> d, ReminderIntervalID |-> i,
                  Enabled |-> TRUE, SentAt |-> sentAt[i]] :
                    d \in DocIDs, i \in IntervalIDs}
          /\ queue = ScheduleReminders({}, 1, exp, u, reminder_intervals, 0,
                                       IntervalIDs)
    /\ nextDoc = Cardinality(DocIDs) + 1
    /\ sends = NoSends
    /\ invocations = 0

NextRedelivery ==
    \/ Tick
    \/ \E t \in queue : Deliver(t)
    \/ \E t \in queue, emailErr \in BOOLEAN, smsErr \in BOOLEAN :
          SendReminderHandler(t, emailErr, smsErr)
    \/ \E t \in queue, afterSend \in BOOLEAN : Crash(t, afterSend)
    \/ \E t \in queue : Recover(t)

SpecRedelivery == InitRedelivery /\ [][NextRedelivery]_vars

----------------------------------------------------------------------------
(* Toggle requests on a document as CreateDocumentHandler left it at time 0, for
   any set of codes, every enqueue accepted; the clock runs and the queue hands out
   the tasks in between. *)

InitToggle ==
    /\ proc = Serving
    /\ now = 0
    /\ \E u \in Users, exp \in ExpDates, tz \in Timezones, codes \in SUBSET Codes :
          LET reminderIntervals == GetReminderIntervalsFromIdLabels(codes)
          IN /\ documents = [d \in DocIDs |-> [UserID |-> u, ExpirationDate |-> exp,
                                                Timezone |-> tz]]
             /\ document_reminders = SetAllDocumentReminders({}, 1, reminderIntervals)
             /\ queue = ScheduleReminders({}, 1, exp, u, reminderIntervals, 0,
                                          IntervalIDs)
    /\ nextDoc = Cardinality(DocIDs) + 1
    /\ sends = NoSends
    /\ invocations = 1

NextToggle ==
    \/ Tick
    \/ \E u \in Users, d \in DocIDs, code \in Codes, enabled \in BOOLEAN :
          ToggleDocumentReminderHandler(u, d, code, enabled)
    \/ \E t \in queue : Deliver(t)

SpecToggle == InitToggle /\ [][NextToggle]_vars

----------------------------------------------------------------------------
(* Requests on a document by a user who does not own it: the document as
   CreateDocumentHandler left it at time 0; the clock runs and the queue hands out
   the tasks in between. *)

NextForbidden ==
    \/ Tick
    \/ \E t \in queue : Deliver(t)
    \/ \E t \in queue, emailErr \in BOOLEAN, smsErr \in BOOLEAN :
          SendReminderHandler(t, emailErr, smsErr)
    \/ \E u \in Users, d \in DOMAIN documents : Forbidden(u, d) /\ GetDocumentHandler(u, d)
    \/ \E u \in Users, d \in DOMAIN documents, exp \in ExpDates \cup {ZeroTime},
          tz \in Timezones \cup {NoTimezone}, codes \in SUBSET Codes :
          Forbidden(u, d) /\ UpdateDocumentHandler(u, d, exp, tz, codes)
    \/ \E u \in Users, d \in DOMAIN documents :
          Forbidden(u, d) /\ DeleteDocumentHandler(u, d)
    \/ \E u \in Users, d \in DOMAIN documents, code \in Codes, enabled \in BOOLEAN :
          Forbidden(u, d) /\ ToggleDocumentReminderHandler(u, d, code, enabled)

SpecForbidden == InitToggle /\ [][NextForbidden]_vars

----------------------------------------------------------------------------
(* func main from the two go statements on: start-up, signal, shutdown *)

\* the requests' state, which the process steps leave alone
data == <<now, documents, document_reminders, queue, nextDoc, sends, invocations>>

\* the operating system sends SIGINT or SIGTERM. While no signal.Notify is in
\* force the default disposition ends the process; afterwards the signal is put
\* on every channel registered for it: main's sigChan once main has passed
\* signal.Notify, asynq's once Server.Run has started the server and waits
Signal(sig) ==
    /\ ~proc.exited
    /\ proc.signals < MaxSignals
    /\ LET mainNotified == proc.main # "notify"
           runNotified == proc.worker # "spawned"
       IN proc' = [proc EXCEPT
                      !.signals = @ + 1,
                      !.exited = ~mainNotified /\ ~runNotified,
                      !.sigChan = IF mainNotified THEN Send(@, sig) ELSE @,
                      !.sigs = IF runNotified THEN Send(@, sig) ELSE @]
    /\ UNCHANGED data

\* main: sigChan := make(chan os.Signal, 1); signal.Notify(sigChan, SIGINT, SIGTERM)
Notify ==
    /\ ~proc.exited
    /\ proc.main = "notify"
    /\ proc' = [proc EXCEPT !.main = "wait"]
    /\ UNCHANGED data

\* main: <-sigChan, then cancel() on a context nothing else holds
ReceiveSignal ==
    /\ ~proc.exited
    /\ proc.main = "wait"
    /\ proc.sigChan # << >>
    /\ proc' = [proc EXCEPT !.main = "httpShutdown", !.sigChan = Tail(@)]
    /\ UNCHANGED data

\* main: httpServer.Shutdown(shutdownCtx). The listener is closed at once, the
\* call returns when the connections are idle or after the 30 seconds of
\* shutdownCtx, and its error is only logged
HTTPServerShutdown ==
    /\ ~proc.exited
    /\ proc.main = "httpShutdown"
    /\ proc' = [proc EXCEPT !.main = "workerShutdown", !.httpServer = "closed"]
    /\ UNCHANGED data

\* asynq's Server.Shutdown(): on a server that is running it stops the workers
\* (waiting for them no longer than the shutdown timeout) and closes the server;
\* on a server not started yet, or closed already, it returns at once
Shutdown(state) == IF state = "active" THEN "closed" ELSE state

\* main: workerServer.Shutdown()
WorkerServerShutdown ==
    /\ ~proc.exited
    /\ proc.main = "workerShutdown"
    /\ proc' = [proc EXCEPT !.main = "wgWait", !.workerServer = Shutdown(@)]
    /\ UNCHANGED data

\* main: wg.Wait() returns when both goroutines are done; main returns and the
\* process ends
Wait ==
    /\ ~proc.exited
    /\ proc.main = "wgWait"
    /\ wg(proc) = 0
    /\ proc' = [proc EXCEPT !.main = "returned", !.exited = TRUE]
    /\ UNCHANGED data

\* goroutine 1: httpServer.ListenAndServe(). On a server already shut down it
\* returns http.ErrServerClosed and the goroutine ends; when it cannot listen
\* (err) log.Fatalf ends the process; otherwise it serves
ListenAndServe(err) ==
    /\ ~proc.exited
    /\ proc.http = "spawned"
    /\ proc' = IF proc.httpServer = "closed"
               THEN [proc EXCEPT !.http = "done"]
               ELSE IF err
                    THEN [proc EXCEPT !.exited = TRUE]
                    ELSE [proc EXCEPT !.http = "serving", !.httpServer = "listening"]
    /\ UNCHANGED data

\* goroutine 1: after Shutdown, ListenAndServe returns http.ErrServerClosed and
\* the deferred wg.Done() runs
ListenAndServeReturns ==
    /\ ~proc.exited
    /\ proc.http = "serving"
    /\ proc.httpServer = "closed"
    /\ proc' = [proc EXCEPT !.http = "done"]
    /\ UNCHANGED data

\* goroutine 2: workerServer.Run(workerMux), first part. Run starts the server
\* (an error, err, is returned to the goroutine, whose log.Fatalf ends the
\* process) and then registers for the signals and blocks until one arrives
Run(err) ==
    /\ ~proc.exited
    /\ proc.worker = "spawned"
    /\ proc' = IF err
               THEN [proc EXCEPT !.exited = TRUE]
               ELSE [proc EXCEPT !.worker = "waiting", !.workerServer = "active"]
    /\ UNCHANGED data

\* goroutine 2: Run receives a signal of its own
RunReceivesSignal ==
    /\ ~proc.exited
    /\ proc.worker = "waiting"
    /\ proc.sigs # << >>
    /\ proc' = [proc EXCEPT !.worker = "shutdown", !.sigs = Tail(@)]
    /\ UNCHANGED data

\* goroutine 2: Run shuts the server down itself and returns nil; the deferred
\* wg.Done() runs
RunReturns ==
    /\ ~proc.exited
    /\ proc.worker = "shutdown"
    /\ proc' = [proc EXCEPT !.worker = "done", !.workerServer = Shutdown(@)]
    /\ UNCHANGED data

InitMain ==
    /\ proc = Started
    /\ now = 0
    /\ documents = << >>
    /\ document_reminders = {}
    /\ queue = {}
    /\ nextDoc = 1
    /\ sends = NoSends
    /\ invocations = 0

NextMain ==
    \/ \E sig \in Signals : Signal(sig)
    \/ Notify
    \/ ReceiveSignal
    \/ HTTPServerShutdown
    \/ WorkerServerShutdown
    \/ Wait
    \/ \E err \in BOOLEAN : ListenAndServe(err)
    \/ ListenAndServeReturns
    \/ \E err \in BOOLEAN : Run(err)
    \/ RunReceivesSignal
    \/ RunReturns

SpecMain == InitMain /\ [][NextMain]_vars

\* The Go scheduler runs every goroutine that can take a step, and each call main
\* and the goroutines make returns (Shutdown of either server is bounded by a
\* timeout). Nothing obliges the operating system to send a signal.
FairnessMain ==
    /\ WF_vars(Notify)
    /\ WF_vars(ReceiveSignal)
    /\ WF_vars(HTTPServerShutdown)
    /\ WF_vars(WorkerServerShutdown)
    /\ WF_vars(Wait)
    /\ WF_vars(\E err \in BOOLEAN : ListenAndServe(err))
    /\ WF_vars(ListenAndServeReturns)
    /\ WF_vars(\E err \in BOOLEAN : Run(err))
    /\ WF_vars(RunReceivesSignal)
    /\ WF_vars(RunReturns)

SpecMainFair == SpecMain /\ FairnessMain

----------------------------------------------------------------------------
(* Claims *)

\* tasks of (d, i) the queue still has to run
Outstanding(q, d, i) == {t \in TasksOf(q, d, i) : t.state # "archived"}

\* binding (d, i) exists in rows and is enabled
BindingEnabled(rows, d, i) == \E r \in RowsOf(rows, d, i) : r.Enabled

\* C1: a step of CreateDocumentHandler leaves exactly one outstanding task for
\* each resolved code whose fire instant lies in the future, and no task for any
\* other code.
C1_CreateSchedulesExactlyFuture ==
    [][\A u \in Users, exp \in ExpDates, tz \in Timezones,
          codes \in SUBSET Codes, accepted \in SUBSET IntervalIDs :
          CreateDocumentHandler(u, exp, tz, codes, accepted) =>
              \A ri \in reminder_intervals :
                  Cardinality(Outstanding(queue', nextDoc, ri.ID)) =
                      IF ri.IdLabel \in codes /\ ReminderTime(exp, ri) > now
                      THEN 1 ELSE 0]_vars

\* C2: a step of UpdateDocumentHandler by the owner leaves every enabled binding
\* whose fire instant (from the document's expiration date as updated) lies in the
\* future with exactly one outstanding task, at that instant, and no outstanding
\* task of the document at another instant (one derived from the old date).
C2_UpdateReschedules ==
    [][\A u \in Users, d \in DocIDs, exp \in ExpDates \cup {ZeroTime},
          tz \in Timezones \cup {NoTimezone}, codes \in SUBSET Codes :
          (UpdateDocumentHandler(u, d, exp, tz, codes) /\ documents[d].UserID = u) =>
              \A ri \in reminder_intervals :
                  LET fire == ReminderTime(documents'[d].ExpirationDate, ri)
                      out == Outstanding(queue', d, ri.ID)
                  IN /\ (BindingEnabled(document_reminders', d, ri.ID) /\ fire > now)
                           => Cardinality(out) = 1
                     /\ \A t \in out : t.processAt = fire]_vars

\* C3: a step of ToggleDocumentReminderHandler by the owner with enabled = false
\* on a binding that exists leaves no pending task for that (document, interval).
C3_DisableCancelsTask ==
    [][\A u \in Users, d \in DocIDs, ri \in reminder_intervals :
          (/\ ToggleDocumentReminderHandler(u, d, ri.IdLabel, FALSE)
           /\ documents[d].UserID = u
           /\ RowsOf(document_reminders, d, ri.ID) # {}) =>
              \A t \in TasksOf(queue', d, ri.ID) : t.state # "pending"]_vars

\* C4: a run of the executor on a task whose binding is disabled or gone calls
\* neither SendEmail nor SendSMS and acknowledges the task (returns no error).
C4_DisabledBindingNotSent ==
    [][\A t \in queue, emailErr \in BOOLEAN, smsErr \in BOOLEAN :
          (/\ SendReminderHandler(t, emailErr, smsErr)
           /\ ~BindingEnabled(document_reminders, t.doc, t.interval)) =>
              (sends' = NoSends /\ queue' = queue \ {t})]_vars

\* C5: every (document, interval) has at most one outstanding task, in every state
\* reachable through create, update, toggle and delete requests.
C5_AtMostOneTaskPerBinding ==
    \A d \in DocIDs, i \in IntervalIDs : Cardinality(Outstanding(queue, d, i)) <= 1

\* C5 witness: a binding that was set again by an update (two rows) while its one
\* task is outstanding
C5_Witness ==
    \E d \in DocIDs, i \in IntervalIDs :
        /\ Cardinality(Outstanding(queue, d, i)) = 1
        /\ Cardinality(RowsOf(document_reminders, d, i)) >= 2

\* the queue ScheduleReminders leaves when invoked once, every enqueue accepted
ScheduledOnce(d) ==
    ScheduleReminders({}, d, documents[d].ExpirationDate, documents[d].UserID,
                      EnabledIntervals(d), now, IntervalIDs)

\* C6: invoking ScheduleReminders any number of times (>= 1) for the same
\* unchanged document and interval set leaves no more tasks per binding than
\* invoking it once: no duplicate task per binding.
C6_ScheduleIdempotent ==
    invocations >= 1 =>
        \A d \in DocIDs, i \in IntervalIDs :
            Cardinality(TasksOf(queue, d, i))
                <= Cardinality(TasksOf(ScheduledOnce(d), d, i))

\* C7: there is at most one document_reminders row per (document, interval).
C7_UniqueBinding ==
    \A d \in DocIDs, i \in IntervalIDs :
        Cardinality(RowsOf(document_reminders, d, i)) <= 1

\* C8: a task is in the hands of a worker (the executor runs on it) only at or
\* after the instant it was enqueued with.
C8_NeverDeliveredEarly ==
    \A t \in queue : t.state = "active" => t.processAt <= now

\* C8 witness: a task enqueued for a later instant is in the hands of a worker
C8_Witness ==
    \E t \in queue : t.state = "active" /\ t.processAt >= 1

\* C9: a task whose worker crashed between delivery and acknowledgment is
\* eventually delivered again.
C9_CrashRedelivers ==
    \A d \in DocIDs, i \in IntervalIDs :
        (\E t \in TasksOf(queue, d, i) : t.state = "lease_expired")
            ~> (\E t \in TasksOf(queue, d, i) : t.state = "active")

\* C9 as amended: a task whose worker crashed between delivery and acknowledgment
\* and that has a retry left is eventually delivered again.
C9_CrashRedeliversWithinRetries ==
    \A d \in DocIDs, i \in IntervalIDs :
        (\E t \in TasksOf(queue, d, i) :
            t.state = "lease_expired" /\ t.retried < MaxRetry)
            ~> (\E t \in TasksOf(queue, d, i) : t.state = "active")

\* C9 witness: a task that is delivered again after a crash (its document exists,
\* so no run of the handler on it returned an error)
C9_Witness ==
    \E t \in queue :
        t.state = "active" /\ t.retried >= 1 /\ t.doc \in DOMAIN documents

\* the timezone names that are IANA zones
IANAZones == {"America/New_York"}

\* the UTC offset of an IANA zone in winter, in hours
UTCOffset(tz) == IF tz = "America/New_York" THEN -5 ELSE 0

\* the instant of local midnight of a day in zone tz, in hours since day 0, 00:00 UTC
LocalMidnightUTC(day, tz) == 24 * day - UTCOffset(tz)

\* C11: every task a step of CreateDocumentHandler enqueues for a document with
\* expiration date exp and an IANA timezone tz carries, for its interval of n days,
\* the instant of local midnight of day exp - n in tz.
C11_FireInstantLocalMidnight ==
    [][\A u \in Users, exp \in ExpDates, tz \in IANAZones,
          codes \in SUBSET Codes, accepted \in SUBSET IntervalIDs :
          CreateDocumentHandler(u, exp, tz, codes, accepted) =>
              \A ri \in reminder_intervals :
                  \A t \in TasksOf(queue', nextDoc, ri.ID) :
                      24 * t.processAt = LocalMidnightUTC(exp - ri.DaysBefore, tz)]_vars

\* C12: a create or update request carrying a timezone name that is no IANA zone
\* is rejected: the step changes no document and no binding and schedules no task.
C12_UnrecognizedTimezoneRejected ==
    [][\A u \in Users, exp \in ExpDates \cup {ZeroTime}, tz \in Timezones \ IANAZones,
          codes \in SUBSET Codes :
          (\/ \E accepted \in SUBSET IntervalIDs :
                 CreateDocumentHandler(u, exp, tz, codes, accepted)
           \/ \E d \in DocIDs :
                 UpdateDocumentHandler(u, d, exp, tz, codes) /\ documents[d].UserID = u)
              => UNCHANGED <<documents, document_reminders, queue>>]_vars

\* what a create or update request with the codes leaves for document d: one new
\* binding for each catalog interval the codes name and none for any other, no row
\* outside the catalog, and new tasks only for intervals the codes name
ResolvedOnly(d, codes) ==
    /\ \A ri \in reminder_intervals :
          Cardinality(RowsOf(document_reminders', d, ri.ID)) =
              Cardinality(RowsOf(document_reminders, d, ri.ID))
                  + (IF ri.IdLabel \in codes THEN 1 ELSE 0)
    /\ \A r \in document_reminders' : r.ReminderIntervalID \in IntervalIDs
    /\ \A t \in queue' \ queue :
          \E ri \in reminder_intervals : ri.ID = t.interval /\ ri.IdLabel \in codes

C14_UpdateDisablesAbsent ==
    [][\A u \in Users, d \in DocIDs, exp \in ExpDates \cup {ZeroTime},
          tz \in Timezones \cup {NoTimezone}, codes \in SUBSET Codes :
          (UpdateDocumentHandler(u, d, exp, tz, codes) /\ documents[d].UserID = u) =>
              \A ri \in reminder_intervals :
                  (BindingEnabled(document_reminders, d, ri.ID) /\ ri.IdLabel \notin codes)
                      => /\ RowsOf(document_reminders', d, ri.ID) # {}
                         /\ \A r \in RowsOf(document_reminders', d, ri.ID) : ~r.Enabled]_vars

\* C15: a step of ToggleDocumentReminderHandler by the owner with enabled = true on
\* a binding that exists leaves the binding enabled with sent_at NULL, whatever its
\* sent_at before.
C15_ReenableClearsSentAt ==
    [][\A u \in Users, d \in DocIDs, ri \in reminder_intervals :
          (/\ ToggleDocumentReminderHandler(u, d, ri.IdLabel, TRUE)
           /\ documents[d].UserID = u
           /\ RowsOf(document_reminders, d, ri.ID) # {}) =>
              \A r \in RowsOf(document_reminders', d, ri.ID) :
                  r.Enabled /\ r.SentAt = NULL]_vars

\* C15 witness: a binding the document started with (its sent_at not NULL) is
\* enabled with sent_at NULL
C15_Witness ==
    \E r \in document_reminders : r.ID[3] = 1 /\ r.Enabled /\ r.SentAt = NULL

C17_ExecutorStampsSentAt ==
    [][\A t \in queue, emailErr \in BOOLEAN, smsErr \in BOOLEAN :
          (/\ SendReminderHandler(t, emailErr, smsErr)
           /\ t.doc \in DOMAIN documents
           /\ BindingEnabled(document_reminders, t.doc, t.interval)) =>
              \A r \in RowsOf(document_reminders', t.doc, t.interval) :
                  r.Enabled => r.SentAt # NULL]_vars

\* C18: a run of the executor on a task whose document no longer exists
\* acknowledges the task (it leaves the queue and is not retried) and calls no
\* transport.
C18_MissingDocumentAcknowledged ==
    [][\A t \in queue, emailErr \in BOOLEAN, smsErr \in BOOLEAN :
          (SendReminderHandler(t, emailErr, smsErr) /\ t.doc \notin DOMAIN documents) =>
              (queue' = queue \ {t} /\ sends' = NoSends)]_vars

\* C19: a run of the executor on a task of an existing document calls SendEmail,
\* calls SendSMS when the user has a phone number, and acknowledges the task,
\* whatever the two transport calls return.
C19_TransportFailureIsolated ==
    [][\A t \in queue, emailErr \in BOOLEAN, smsErr \in BOOLEAN :
          (SendReminderHandler(t, emailErr, smsErr) /\ t.doc \in DOMAIN documents) =>
              /\ sends'.email = 1
              /\ sends'.sms = (IF GetUserPhoneNumber(String(t.user)) # "" THEN 1 ELSE 0)
              /\ queue' = queue \ {t}]_vars

\* C19 witness: SendEmail returned an error and SendSMS was called all the same
C19_Witness == "email" \in sends.failed /\ sends.sms = 1

\* C20: after a step of CreateDocumentHandler every resolved interval whose reminder
\* time has not passed has its task in the queue, or a failure record in
\* notification_logs: no enqueue is lost without a trace.
C20_EnqueueFailureNotLost ==
    [][\A u \in Users, exp \in ExpDates, tz \in Timezones,
          codes \in SUBSET Codes, accepted \in SUBSET IntervalIDs :
          CreateDocumentHandler(u, exp, tz, codes, accepted) =>
              \A ri \in reminder_intervals :
                  (ri.IdLabel \in codes /\ ~Before(ReminderTime(exp, ri), now)) =>
                      \/ TasksOf(queue', nextDoc, ri.ID) # {}
                      \/ \E l \in notification_logs :
                            l.DocumentID = nextDoc /\ l.ReminderIntervalID = ri.ID]_vars

\* the task of queue q that carries the id of task t, if any
SameTask(q, t) == {x \in q : x.id = t.id}

\* task t put back for another attempt, the attempt counted
Retried(t) == [t EXCEPT !.state = "pending", !.retried = t.retried + 1]

\* task t in the failed-terminal state
Archived(t) == [t EXCEPT !.state = "archived"]

\* C21: in every step every task of the queue stays as it is or moves along
\* pending -> active -> {delivered (it leaves the queue), pending again with one
\* more attempt counted, archived}; no task is counted more than MaxRetry retries; a
\* run of the executor that returns an error puts the task back to pending while it
\* has a retry left and archives it otherwise; an archived task stays in the queue.
C21_TaskLifecycle ==
    [][\A t \in queue :
          LET after == SameTask(queue', t)
              failed == IF t.retried < MaxRetry THEN Retried(t) ELSE Archived(t)
          IN /\ t.retried <= MaxRetry
             /\ IF t \in queue'
                THEN after = {t}
                ELSE /\ t.state = "pending" => after = {[t EXCEPT !.state = "active"]}
                     /\ t.state = "active" =>
                           (\/ after \in {{}, {failed}}
                            \/ after = {[t EXCEPT !.state = "lease_expired"]})
                     /\ t.state = "lease_expired" => after = {failed}
                     /\ t.state # "archived"
                     /\ \A emailErr \in BOOLEAN, smsErr \in BOOLEAN :
                           (/\ t.doc \notin DOMAIN documents
                            /\ SendReminderHandler(t, emailErr, smsErr)) =>
                               after = {failed}]_vars

\* C21 witness: a task whose document is gone has used up its retries and is kept
\* in the queue, archived
C21_Witness ==
    \E t \in queue :
        t.state = "archived" /\ t.retried = MaxRetry /\ t.doc \notin DOMAIN documents

C23_LateTaskStillSent ==
    /\ \A d \in DocIDs, i \in IntervalIDs :
          (\E t \in TasksOf(queue, d, i) : t.state = "pending" /\ t.processAt < now)
              ~> (\E t \in TasksOf(queue, d, i) : t.state = "active" /\ t.processAt < now)
    /\ [][\A t \in queue \ queue' :
              \A emailErr \in BOOLEAN, smsErr \in BOOLEAN :
                  (/\ t.processAt < now
                   /\ t.doc \in DOMAIN documents
                   /\ SendReminderHandler(t, emailErr, smsErr)) =>
                      (sends'.email = 1 /\ queue' = queue \ {t})]_vars

\* C23 witness: a worker holds a task whose instant has passed
C23_Witness ==
    \E t \in queue : t.state = "active" /\ t.processAt < now

Contains(text, part) == \E k \in DOMAIN text : text[k] = part

\* C25: a run of the executor on a task of an existing document whose binding is
\* enabled calls SendEmail once, with a subject that contains the document's name
\* and its expiration date in the layout "Mon, 2 Jan, 2006".
C25_EmailSubjectNamesDocumentAndDate ==
    [][\A t \in queue, emailErr \in BOOLEAN, smsErr \in BOOLEAN :
          (/\ SendReminderHandler(t, emailErr, smsErr)
           /\ t.doc \in DOMAIN documents
           /\ BindingEnabled(document_reminders, t.doc, t.interval)) =>
              /\ sends'.email = 1
              /\ Contains(SendEmailCall(t).subject, DocumentName(t.doc))
              /\ Contains(SendEmailCall(t).subject,
                          Format(documents[t.doc].ExpirationDate,
                                 "Mon, 2 Jan, 2006"))]_vars

\* C26: after a run of the executor that called the transports, notification_logs
\* holds a record of the task's user, document and interval for each channel
\* attempted.
C26_AttemptsLogged ==
    [][\A t \in queue, emailErr \in BOOLEAN, smsErr \in BOOLEAN :
          (/\ SendReminderHandler(t, emailErr, smsErr)
           /\ t.doc \in DOMAIN documents) =>
              \A channel \in {c \in {"email"} : sends'.email = 1}
                             \cup {c \in {"sms"} : sends'.sms = 1} :
                  \E l \in notification_logs :
                      /\ l.UserID = t.user
                      /\ l.DocumentID = t.doc
                      /\ l.ReminderIntervalID = t.interval
                      /\ l.Channel = channel]_vars

\* user u has a phone number that is not the empty string
HasPhone(u) == phone_number[u] # << >> /\ phone_number[u][1] # ""

\* C27: a run of the executor on a task whose user and document are found calls
\* SendEmail once and calls SendSMS exactly when the user has a non-empty phone
\* number; for a user whose phone_number is NULL (it cannot be read) there is no
\* SMS and the run does not fail: the task is done and leaves the queue.
C27_SMSOnlyWithPhone ==
    [][\A t \in queue, emailErr \in BOOLEAN, smsErr \in BOOLEAN :
          (/\ SendReminderHandler(t, emailErr, smsErr)
           /\ t.doc \in DOMAIN documents) =>
              /\ sends'.email = 1
              /\ sends'.sms = 1 <=> HasPhone(t.user)
              /\ phone_number[t.user] = << >> =>
                    (sends'.sms = 0 /\ queue' = queue \ {t})]_vars

\* C27 witness: a run for the user whose phone_number is NULL has sent the email and
\* no SMS, and its task has left the queue
C27_Witness ==
    /\ sends.email = 1
    /\ sends.sms = 0
    /\ \E d \in DOMAIN documents : phone_number[documents[d].UserID] = << >>
    /\ \A t \in queue : t.state # "lease_expired"

\* C28: for every task in the queue, delivered or not, decoding its payload gives
\* without error the text of the user id and of the document id and the interval id
\* that ScheduleReminders put into the payload it encoded for the task.
C28_PayloadRoundTrip ==
    \A t \in queue :
        Unmarshal(t.payload) =
            [err |-> FALSE, UserID |-> String(t.user), DocumentID |-> String(t.doc),
             IntervalID |-> t.interval]

\* C28 witness: a delivered task of user 2 decodes to user 2 and to its document
C28_Witness ==
    \E t \in queue :
        /\ t.state = "active"
        /\ Unmarshal(t.payload).UserID = String(2)
        /\ \E d \in DOMAIN documents : Unmarshal(t.payload).DocumentID = String(d)

\* C29: a step of ToggleDocumentReminderHandler, enabling or disabling, leaves the
\* documents and the queue as they are and the table with the same rows (same ids,
\* documents and intervals); a row whose enabled flag or sent_at differs after the
\* step is a row of the request's document and interval.
C29_ToggleFrame ==
    [][\A u \in Users, d \in DocIDs, code \in Codes, enabled \in BOOLEAN :
          ToggleDocumentReminderHandler(u, d, code, enabled) =>
              /\ documents' = documents
              /\ queue' = queue
              /\ Cardinality(document_reminders') = Cardinality(document_reminders)
              /\ \A r \in document_reminders :
                    \E r2 \in document_reminders' :
                        /\ r2.ID = r.ID
                        /\ r2.DocumentID = r.DocumentID
                        /\ r2.ReminderIntervalID = r.ReminderIntervalID
                        /\ r2 # r =>
                              /\ r.DocumentID = d
                              /\ \E ri \in reminder_intervals :
                                    ri.IdLabel = code /\ ri.ID = r.ReminderIntervalID
          ]_vars

\* C29 witness: a binding was disabled; its task is still in the queue and the other
\* binding of the document is still enabled
C29_Witness ==
    \E r \in document_reminders, r2 \in document_reminders :
        /\ ~r.Enabled
        /\ TasksOf(queue, r.DocumentID, r.ReminderIntervalID) # {}
        /\ r2.DocumentID = r.DocumentID
        /\ r2.ReminderIntervalID # r.ReminderIntervalID
        /\ r2.Enabled

\* C30: a step of ToggleDocumentReminderHandler by the owner with a code of the
\* catalog for which the document has no binding row is answered with status 500
\* and leaves the table (no row is created) and the queue as they are.
C30_ToggleMissingBindingFails ==
    [][\A u \in Users, d \in DocIDs, ri \in reminder_intervals, enabled \in BOOLEAN :
          (/\ d \in DOMAIN documents
           /\ documents[d].UserID = u
           /\ RowsOf(document_reminders, d, ri.ID) = {}
           /\ ToggleDocumentReminderHandler(u, d, ri.IdLabel, enabled)) =>
              /\ ToggleDocumentReminderStatus(u, d, ri.IdLabel) = 500
              /\ document_reminders' = document_reminders
              /\ queue' = queue]_vars

\* C30 witness: a document with a binding and a queued task for one interval and no
\* binding row for another; a toggle of the missing pair taken in this state leads
\* back to this state
C30_Witness ==
    /\ sends = NoSends
    /\ \E d \in DOMAIN documents, i \in IntervalIDs, j \in IntervalIDs :
          /\ RowsOf(document_reminders, d, i) = {}
          /\ RowsOf(document_reminders, d, j) # {}
          /\ TasksOf(queue, d, j) # {}
          /\ ENABLED (\E u \in Users, ri \in reminder_intervals :
                         /\ ri.ID = i
                         /\ documents[d].UserID = u
                         /\ ToggleDocumentReminderHandler(u, d, ri.IdLabel, TRUE))

\* C31: in every reachable state the sent_at of every binding row is NULL.
C31_SentAtAlwaysNull ==
    \A r \in document_reminders : r.SentAt = NULL

\* C31 witness: the document was created with two bindings, one of them was
\* disabled by a toggle, and the executor has just run and sent the email
C31_Witness ==
    /\ sends.email = 1
    /\ \E r \in document_reminders, r2 \in document_reminders :
          /\ r.DocumentID = r2.DocumentID
          /\ r.ReminderIntervalID # r2.ReminderIntervalID
          /\ ~r.Enabled
          /\ r2.Enabled

\* C32: a step of CreateDocumentHandler, whatever enqueues the queue rejects,
\* inserts the document and an enabled binding for every resolved interval, and
\* leaves a task exactly for the resolved intervals whose reminder time has not
\* passed and whose enqueue was accepted (a rejection does not stop the loop); no
\* other step puts a task into the queue that was not in it, so a rejected enqueue
\* is not made up for later. Only the create handler changes nextDoc.
C32_RejectedEnqueueSkipped ==
    [][IF nextDoc' # nextDoc
       THEN \A u \in Users, exp \in ExpDates, tz \in Timezones,
               codes \in SUBSET Codes, accepted \in SUBSET IntervalIDs :
               CreateDocumentHandler(u, exp, tz, codes, accepted) =>
                   /\ nextDoc \in DOMAIN documents'
                   /\ \A ri \in reminder_intervals :
                         ri.IdLabel \in codes =>
                             /\ BindingEnabled(document_reminders', nextDoc, ri.ID)
                             /\ TasksOf(queue', nextDoc, ri.ID) # {} <=>
                                   (/\ ri.ID \in accepted
                                    /\ ~Before(ReminderTime(exp, ri), now))
       ELSE \A t \in queue' \ queue : SameTask(queue, t) # {}]_vars

\* C32 witness: a document with two enabled bindings; the reminder time of one has
\* not come and it has no task, while the task of the other is in the queue at its
\* reminder time
C32_Witness ==
    \E d \in DOMAIN documents, ri \in reminder_intervals, rj \in reminder_intervals :
        /\ BindingEnabled(document_reminders, d, ri.ID)
        /\ BindingEnabled(document_reminders, d, rj.ID)
        /\ ReminderTime(documents[d].ExpirationDate, ri) > now
        /\ TasksOf(queue, d, ri.ID) = {}
        /\ \E t \in TasksOf(queue, d, rj.ID) :
              t.processAt = ReminderTime(documents[d].ExpirationDate, rj)

\* C33: a step of CreateDocumentHandler in which an insert of a binding fails
\* leaves the queue as it was, with no task of the new document, and keeps the
\* document row and the bindings inserted before the failure, and no others.
C33_InsertFailureNoTaskNoRollback ==
    [][nextDoc' # nextDoc =>
          \A u \in Users, exp \in ExpDates, tz \in Timezones,
             codes \in SUBSET Codes, inserted \in SUBSET reminder_intervals :
             CreateDocumentHandlerInsertFails(u, exp, tz, codes, inserted) =>
                 /\ queue' = queue
                 /\ \A t \in queue' : t.doc # nextDoc
                 /\ nextDoc \in DOMAIN documents'
                 /\ documents'[nextDoc] =
                       [UserID |-> u, ExpirationDate |-> exp, Timezone |-> tz]
                 /\ \A ri \in reminder_intervals :
                       RowsOf(document_reminders', nextDoc, ri.ID) # {}
                           <=> ri \in inserted]_vars

\* C33 witness: a document is stored with a binding although ScheduleReminders was
\* never invoked; a resolved interval has no binding and the queue is empty
C33_Witness ==
    /\ invocations = 0
    /\ queue = {}
    /\ \E d \in DOMAIN documents, i \in IntervalIDs, j \in IntervalIDs :
          /\ RowsOf(document_reminders, d, i) # {}
          /\ RowsOf(document_reminders, d, j) = {}

C35_NonOwnerChangesNothing ==
    [][\A u \in Users, d \in DOMAIN documents :
          Forbidden(u, d) =>
              ((\/ GetDocumentHandler(u, d)
                \/ DeleteDocumentHandler(u, d)
                \/ \E exp \in ExpDates \cup {ZeroTime},
                      tz \in Timezones \cup {NoTimezone}, codes \in SUBSET Codes :
                      UpdateDocumentHandler(u, d, exp, tz, codes)
                \/ \E code \in Codes, enabled \in BOOLEAN :
                      ToggleDocumentReminderHandler(u, d, code, enabled))
               => /\ documents' = documents
                  /\ document_reminders' = document_reminders
                  /\ queue' = queue
                  /\ \A code \in Codes :
                        ToggleDocumentReminderStatus(u, d, code) = 403)]_vars

\* C35 witness: a document of user 1 with an enabled binding and its task in the
\* hands of a worker, on which a request of user 2 is possible; by the claim the request leads
\* back to this state
C35_Witness ==
    /\ sends = NoSends
    /\ \E d \in DOMAIN documents :
          /\ documents[d].UserID = 1
          /\ Forbidden(2, d)
          /\ \E r \in document_reminders :
                /\ r.DocumentID = d
                /\ r.Enabled
                /\ \E t \in TasksOf(queue, d, r.ReminderIntervalID) :
                      t.state = "active"
          /\ ENABLED (DeleteDocumentHandler(2, d)
                      /\ UNCHANGED <<documents, document_reminders, queue>>)

\* C36: after SIGINT or SIGTERM the process eventually terminates: once a signal
\* was sent to the process, the process ends (main returns after both servers
\* were shut down and both goroutines finished, or the process was ended before)
C36_SignalTerminates == (proc.signals > 0) ~> proc.exited

\* C10: a step of CreateDocumentHandler leaves no task in the queue for a
\* resolved interval whose fire instant is at or before the current instant.
C10_ElapsedNotEnqueued ==
    [][\A u \in Users, exp \in ExpDates, tz \in Timezones,
          codes \in SUBSET Codes, accepted \in SUBSET IntervalIDs :
          CreateDocumentHandler(u, exp, tz, codes, accepted) =>
              \A ri \in reminder_intervals :
                  (ri.IdLabel \in codes /\ ReminderTime(exp, ri) <= now)
                      => TasksOf(queue', nextDoc, ri.ID) = {}]_vars

====
